---------------------------- MODULE Spec2Model ----------------------------
(***************************************************************************)
(* Pysics: nodes (point masses), sticks (distance constraints), the App    *)
(* that owns them and steps them, the sample builders, and the event loop  *)
(* of main.py.                                                             *)
(*                                                                         *)
(* Arithmetic.  The program computes in floats.  The model computes in     *)
(* fixed point: a coordinate, a length or a distance is an integer number  *)
(* of 1/PosScale world units, a time increment is an integer number of     *)
(* milliseconds (clock.tick() returns milliseconds), a mass is an integer  *)
(* number of tenths.  Sums, differences and products by integers are       *)
(* exact; a square root or a quotient that is no multiple of the unit is   *)
(* rounded down to it.  The inputs are chosen so that the gravity term     *)
(* GRAVITY * dt * dt * mass is exact.                                      *)
(*                                                                         *)
(* Objects.  Python objects are heap cells: N is the heap of Node objects  *)
(* and S the heap of Stick objects, both indexed by identity 1, 2, ...     *)
(* A reference is an index; 0 is None or an unbound local.  An object      *)
(* stays on its heap when no list holds it any more, as in Python while a  *)
(* reference to it is alive.                                               *)
(***************************************************************************)
EXTENDS Integers, Sequences, FiniteSets, TLC

VARIABLES
    N,          \* heap of Node objects: [x, y, px, py, locked, isNew, sticks, mass]
    S,          \* heap of Stick objects: [a, b, len, halfLen]
    nodes,      \* app.nodes: list of Node references
    sticks,     \* app.sticks: list of Stick references
    paused,     \* app.paused
    nodeA,      \* main's local nodeA (0: not yet bound)
    nodeB,      \* main's local nodeB
    mPos,       \* main's local mPos of the current frame
    mState,     \* main's local mState of the current frame
    nearest,    \* main's local nearest of the current frame (0: None)
    pc,         \* position in main's loop body: "poll", "events", "update", ...
    leftDown,   \* the left button as the delivered events left it
    used,       \* resources spent: [ticks, created, reloads, events]
    last,       \* the most recent operation and its outcome
    log,        \* what the most recent stick pass of App.update did
    args        \* inputs of the function under test (pure-function specifications)

vars == <<N, S, nodes, sticks, paused, nodeA, nodeB, mPos, mState, nearest,
          pc, leftDown, used, last, log, args>>

---------------------------------------------------------------------------
(* Representation *)

\* Units per world unit: the resolution of the model's coordinates.
PosScale == 100
\* Units per unit of mass.
MassScale == 10
\* clock.tick() counts milliseconds; main divides by 1000.0.
MsPerSecond == 1000

U(v) == v * PosScale

Abs(v) == IF v < 0 THEN 0 - v ELSE v

Max(a, b) == IF a > b THEN a ELSE b

Range(f) == {f[i] : i \in DOMAIN f}

\* list.remove(v): the list without its first element equal to v.
RECURSIVE IndexOf(_, _, _)
IndexOf(seq, v, i) ==
    IF i > Len(seq) THEN 0
    ELSE IF seq[i] = v THEN i
    ELSE IndexOf(seq, v, i + 1)

ListRemove(seq, v) ==
    LET k == IndexOf(seq, v, 1)
    IN  IF k = 0 THEN seq
        ELSE [i \in 1..(Len(seq) - 1) |-> IF i < k THEN seq[i] ELSE seq[i + 1]]

\* math.sqrt at the model's resolution: the largest r with r * r <= n.
RECURSIVE SqrtIter(_, _, _)
SqrtIter(n, lo, hi) ==
    IF hi - lo <= 1 THEN lo
    ELSE LET mid == (lo + hi) \div 2
         IN  IF mid * mid <= n THEN SqrtIter(n, mid, hi) ELSE SqrtIter(n, lo, mid)

Sqrt(n) == SqrtIter(n, 0, 46341)

---------------------------------------------------------------------------
(* constants.py *)

H == 720
GRAVITY == 500
USE_STRESS == TRUE
MAX_STRESS == 15
SNAP_RADIUS == 20
DELETE_RADIUS == 10
NODE_RADIUS == 3
STICK_WIDTH == 5

---------------------------------------------------------------------------
(* utils.py *)

\* distance(a, b) of two points <<x, y>>.  Squares of offsets beyond 2^15
\* units would leave the integers the checker computes in: such offsets are
\* squared at 1/16 of the resolution.
distance(a, b) ==
    LET dx == Abs(a[1] - b[1])
        dy == Abs(a[2] - b[2])
    IN  IF dx < 32768 /\ dy < 32768
        THEN Sqrt(dx * dx + dy * dy)
        ELSE 16 * Sqrt((dx \div 16) * (dx \div 16) + (dy \div 16) * (dy \div 16))

\* a * b / c, c > 0: as distance does, factors beyond 2^15 units are
\* multiplied at 1/16 of the resolution.
MulDiv(a, b, c) ==
    IF Abs(a) < 32768 /\ Abs(b) < 32768
    THEN (a * b) \div c
    ELSE ((a \div 16) * (b \div 16)) \div Max(1, c \div 256)

---------------------------------------------------------------------------
(* node.py *)

\* Node(pos, locked, isNew, mass)
Node(pos, locked, isNew, mass) ==
    [x |-> pos[1], y |-> pos[2], px |-> pos[1], py |-> pos[2],
     locked |-> locked, isNew |-> isNew, sticks |-> <<>>, mass |-> mass]

\* Node.pos
pos(n) == <<n.x, n.y>>

\* GRAVITY * dt * dt * mass, dt in milliseconds and mass in tenths, in units.
GravityTerm(dt, mass) ==
    (GRAVITY * dt * dt * mass)
        \div ((MsPerSecond * MsPerSecond * MassScale) \div PosScale)

\* Node.compute(dt, x, y, px, py, mass): <<x, y, px, py>>
computeNoSquare(dt, x, y, px, py, mass) ==
    LET x1 == 2 * x - px
        y1 == 2 * y - py + (GRAVITY * dt * mass) \div ((MsPerSecond * MassScale) \div PosScale)
    IN  IF y1 > U(H - NODE_RADIUS)
        THEN <<x1, U(H - NODE_RADIUS), x,
               y1 + ((y1 - y) \div 2) - (y1 - U(H - NODE_RADIUS))>>
        ELSE <<x1, y1, x, y>>

compute(dt, x, y, px, py, mass) ==
    LET preX == x
        preY == y
        x1 == 2 * x - px
        y1 == 2 * y - py + GravityTerm(dt, mass)
    IN  IF y1 > U(H - NODE_RADIUS)
        THEN LET excess == y1 - U(H - NODE_RADIUS)
             IN  <<x1, U(H - NODE_RADIUS), preX,
                   y1 + ((y1 - preY) \div 2) - excess>>
        ELSE <<x1, y1, preX, preY>>

\* Node.update(dt) on heap cell n
NodeUpdate(n, dt) ==
    LET r == compute(dt, n.x, n.y, n.px, n.py, n.mass)
    IN  [n EXCEPT !.x = r[1], !.y = r[2], !.px = r[3], !.py = r[4]]

---------------------------------------------------------------------------
(* stick.py.  Properties take the node heap and the stick cell. *)

\* Stick(a, b): the heaps and the new stick's reference.
NewStick(w, a, b) ==
    LET id == Len(w.S) + 1
        ln == distance(pos(w.N[a]), pos(w.N[b]))
        cell == [a |-> a, b |-> b, len |-> ln, halfLen |-> ln \div 2]
        N1 == [w.N EXCEPT ![a].sticks = Append(@, id)]
        N2 == [N1 EXCEPT ![b].sticks = Append(@, id)]
    IN  [w EXCEPT !.N = N2, !.S = Append(w.S, cell)]

\* Stick.nodes
StickNodes(s) == {s.a, s.b}

\* Stick.dist
dist(heap, s) == distance(pos(heap[s.a]), pos(heap[s.b]))

\* Stick.center
center(heap, s) ==
    <<(heap[s.a].x + heap[s.b].x) \div 2, (heap[s.a].y + heap[s.b].y) \div 2>>

\* Stick.stress
stress(heap, s) == dist(heap, s) - s.len

\* Stick.update() divides by self.dist: ZeroDivisionError when it is 0.
StickUpdateRaises(heap, s) == dist(heap, s) = 0

\* Stick.update(), dist # 0: the node heap afterwards.
StickUpdateIgnoreLock(heap, s) ==
    LET c == center(heap, s)
        d == dist(heap, s)
        offX == MulDiv(heap[s.a].x - heap[s.b].x, s.halfLen, d)
        offY == MulDiv(heap[s.a].y - heap[s.b].y, s.halfLen, d)
        h1 == [heap EXCEPT ![s.a].x = c[1] + offX, ![s.a].y = c[2] + offY]
    IN  IF ~h1[s.b].locked
        THEN [h1 EXCEPT ![s.b].x = c[1] - offX, ![s.b].y = c[2] - offY]
        ELSE h1

StickUpdate(heap, s) ==
    LET c == center(heap, s)
        d == dist(heap, s)
        offX == MulDiv(heap[s.a].x - heap[s.b].x, s.halfLen, d)
        offY == MulDiv(heap[s.a].y - heap[s.b].y, s.halfLen, d)
        h1 == IF ~heap[s.a].locked
              THEN [heap EXCEPT ![s.a].x = c[1] + offX, ![s.a].y = c[2] + offY]
              ELSE heap
    IN  IF ~h1[s.b].locked
        THEN [h1 EXCEPT ![s.b].x = c[1] - offX, ![s.b].y = c[2] - offY]
        ELSE h1

---------------------------------------------------------------------------
(* app.py.  The App's object graph is the record                          *)
(* w = [N, S, nodes, sticks]: both heaps and the two lists.               *)

EmptyLog(kind, pre) ==
    [kind |-> kind, pre |-> pre, tested |-> <<>>, relaxed |-> <<>>,
     removed |-> <<>>, moved |-> {}]

\* App.update, the loop over self.nodes
RECURSIVE NodePass(_, _, _, _)
NodePass(heap, lst, i, dt) ==
    IF i > Len(lst) THEN heap
    ELSE LET n == lst[i]
         IN  NodePass(IF ~heap[n].locked /\ ~heap[n].isNew
                      THEN [heap EXCEPT ![n] = NodeUpdate(@, dt)]
                      ELSE heap,
                      lst, i + 1, dt)

\* USE_STRESS and stick.stress > MAX_STRESS
OverStressed(heap, s) == USE_STRESS /\ stress(heap, s) > U(MAX_STRESS)

\* App.update, the loop over self.sticks.  A Python for loop over a list
\* reads element i, advances i, runs the body, and stops when i passes the
\* list's current length; self.sticks.remove(stick) shortens the list the
\* loop is reading.  stick.update() follows the if statement: it is called
\* on every stick the loop reads.  lg records the sticks read (tested), the
\* sticks removed, the sticks stick.update() returned from (relaxed), and the
\* removed sticks whose iteration moved one of their endpoints (moved).
RECURSIVE StickPass(_, _, _, _, _)
StickPass(heap, sh, lst, i, lg) ==
    IF i > Len(lst)
    THEN [N |-> heap, sticks |-> lst, log |-> lg, raised |-> FALSE]
    ELSE LET id == lst[i]
             s == sh[id]
             over == OverStressed(heap, s)
             lst1 == IF over THEN ListRemove(lst, id) ELSE lst
             lg1 == [lg EXCEPT !.tested = Append(@, id),
                               !.removed = IF over THEN Append(@, id) ELSE @]
         IN  IF StickUpdateRaises(heap, s)
             THEN [N |-> heap, sticks |-> lst1,
                   log |-> [lg1 EXCEPT !.kind = "raised"], raised |-> TRUE]
             ELSE LET heap1 == StickUpdate(heap, s)
                      mv == over /\ (pos(heap1[s.a]) # pos(heap[s.a])
                                     \/ pos(heap1[s.b]) # pos(heap[s.b]))
                  IN  StickPass(heap1, sh, lst1, i + 1,
                                [lg1 EXCEPT !.relaxed = Append(@, id),
                                            !.moved = IF mv THEN @ \cup {id} ELSE @])

\* App.update(dt), dt in milliseconds: [N, sticks, log, raised]
AppUpdateIgnorePause(w, isPaused, dt) ==
    LET heap1 == NodePass(w.N, w.nodes, 1, Max(dt, MsPerSecond \div 100))
    IN  StickPass(heap1, w.S, w.sticks, 1, EmptyLog("ran", w.sticks))

AppUpdate(w, isPaused, dt) ==
    IF isPaused
    THEN [N |-> w.N, sticks |-> w.sticks,
          log |-> EmptyLog("paused", w.sticks), raised |-> FALSE]
    ELSE LET dt1 == Max(dt, MsPerSecond \div 100)
             heap1 == NodePass(w.N, w.nodes, 1, dt1)
         IN  StickPass(heap1, w.S, w.sticks, 1, EmptyLog("ran", w.sticks))

\* self.sticks.append(Stick(a, b))
AppendStick(w, a, b) ==
    LET w1 == NewStick(w, a, b)
    IN  [w1 EXCEPT !.sticks = Append(@, Len(w1.S))]

\* self.sticks.append(Stick(a, b)) for each <<a, b>> of pairs, in order
RECURSIVE AppendSticks(_, _, _)
AppendSticks(w, pairs, i) ==
    IF i > Len(pairs) THEN w
    ELSE AppendSticks(AppendStick(w, pairs[i][1], pairs[i][2]), pairs, i + 1)

\* App.textileSample(pos, width, height, pad), width >= 1 and height >= 1.
\* grid[y][x] is the (y * width + x + 1)-th Node the call creates.
textileSampleBottomRight(w, p, width, height, pad) ==
    LET base == Len(w.N)
        cells == [k \in 1..(width * height) |->
                    [Node(<<p[1] + ((k - 1) % width) * pad,
                            p[2] + ((k - 1) \div width) * pad>>,
                          FALSE, FALSE, 6)
                     EXCEPT !.locked = (k = 1 \/ k = width * height)]]
        w1 == [w EXCEPT !.N = w.N \o cells,
                        !.nodes = w.nodes \o [k \in 1..(width * height) |-> base + k]]
        horiz == [k \in 1..(height * (width - 1)) |->
                    <<base + ((k - 1) \div (width - 1)) * width + ((k - 1) % (width - 1)) + 1,
                      base + ((k - 1) \div (width - 1)) * width + ((k - 1) % (width - 1)) + 2>>]
        vert == [k \in 1..((height - 1) * width) |-> <<base + k, base + k + width>>]
    IN  AppendSticks(AppendSticks(w1, horiz, 1), vert, 1)

textileSample(w, p, width, height, pad) ==
    LET base == Len(w.N)
        grid(y, x) == base + y * width + x + 1
        cells == [k \in 1..(width * height) |->
                    [Node(<<p[1] + ((k - 1) % width) * pad,
                            p[2] + ((k - 1) \div width) * pad>>,
                          FALSE, FALSE, 6)
                     EXCEPT !.locked = (base + k = grid(0, 0)
                                        \/ base + k = grid(0, width - 1))]]
        w1 == [w EXCEPT !.N = w.N \o cells,
                        !.nodes = w.nodes \o [k \in 1..(width * height) |-> base + k]]
        horiz == [k \in 1..(height * (width - 1)) |->
                    LET y == (k - 1) \div (width - 1)
                        x == (k - 1) % (width - 1)
                    IN  <<grid(y, x), grid(y, x + 1)>>]
        vert == [k \in 1..((height - 1) * width) |->
                    LET y == (k - 1) \div width
                        x == (k - 1) % width
                    IN  <<grid(y, x), grid(y + 1, x)>>]
    IN  AppendSticks(AppendSticks(w1, horiz, 1), vert, 1)

\* The angles uniform(0.0, 359.9) is drawn from here: the right angles, whose
\* sine and cosine are integers.
Rots == {0, 90, 180, 270}
Sin(rot) == CASE rot = 0 -> 0 [] rot = 90 -> 1 [] rot = 180 -> 0 [] rot = 270 -> 0 - 1
Cos(rot) == CASE rot = 0 -> 1 [] rot = 90 -> 0 [] rot = 180 -> 0 - 1 [] rot = 270 -> 0

\* App.ropeSample, the loop: for i in range(1, length - 1)
RECURSIVE RopeLoop(_, _, _, _, _, _, _)
RopeLoop(w, prev, i, p, length, pad, rot) ==
    IF i >= length - 1 THEN w
    ELSE LET node == Len(w.N) + 1
             cell == Node(<<p[1] + Sin(rot) * pad * i, p[2] + Cos(rot) * pad * i>>,
                          FALSE, FALSE, MassScale)
             w1 == [w EXCEPT !.N = Append(@, cell), !.nodes = Append(@, node)]
         IN  RopeLoop(AppendStick(w1, prev, node), node, i + 1, p, length, pad, rot)

\* App.ropeSample(pos, length, pad) with the angle drawn
ropeSample(w, p, length, pad, rot) ==
    LET prev == Len(w.N) + 1
        w1 == [w EXCEPT !.N = Append(@, Node(p, TRUE, FALSE, MassScale)),
                        !.nodes = Append(@, prev)]
    IN  RopeLoop(w1, prev, 1, p, length, pad, rot)

\* App.squareSample(pos, width) with the angle drawn.
\* sqrt(2) * sin(rot + pi/4) = sin(rot) + cos(rot),
\* sqrt(2) * cos(rot + pi/4) = cos(rot) - sin(rot),
\* sin(rot + pi/2) = cos(rot), cos(rot + pi/2) = -sin(rot).
squareSample(w, p, width, rot) ==
    LET a == Len(w.N) + 1
        b == a + 1
        c == a + 2
        d == a + 3
        cells == <<Node(p, FALSE, FALSE, MassScale),
                   Node(<<p[1] + Sin(rot) * width, p[2] + Cos(rot) * width>>,
                        FALSE, FALSE, MassScale),
                   Node(<<p[1] + (Sin(rot) + Cos(rot)) * width,
                          p[2] + (Cos(rot) - Sin(rot)) * width>>,
                        FALSE, FALSE, MassScale),
                   Node(<<p[1] + Cos(rot) * width, p[2] - Sin(rot) * width>>,
                        FALSE, FALSE, MassScale)>>
        w1 == [w EXCEPT !.N = w.N \o cells, !.nodes = w.nodes \o <<a, b, c, d>>]
    IN  AppendSticks(w1, <<<<a, b>>, <<b, c>>, <<c, d>>, <<d, a>>, <<a, c>>, <<d, b>>>>, 1)

---------------------------------------------------------------------------
(* main.py *)

\* Bounds of the model.  main builds its samples with the builders' default
\* sizes (a 17 x 15 textile, a rope of length 15); the model builds the same
\* samples at these sizes.
TextileWidth == 2
TextileHeight == 2
RopeLength == 3
\* Unpaused calls of App.update, nodes created by the mouse, presses of E,
\* events delivered.
MaxTicks == 2
MaxCreated == 2
MaxReloads == 1
MaxEvents == 2

\* The inputs of the event loop: cursor positions (world units), the
\* milliseconds clock.tick() returns, the angles the samples draw.
MousePositions == {<<U(900), U(300)>>, <<U(900), U(325)>>, <<U(900), U(350)>>,
                   <<U(925), U(325)>>}
Ticks == {0, 200}
SampleDraws == {<<0, 0, 0, 0>>, <<180, 180, 90, 270>>}

World == [N |-> N, S |-> S, nodes |-> nodes, sticks |-> sticks]

\* The five sample calls of main, on the App w; third is the position of the
\* last square and rots the four angles drawn.
LoadSamples(w, third, rots) ==
    LET w1 == textileSample(w, <<U(50), U(200)>>, TextileWidth, TextileHeight, U(20))
        w2 == ropeSample(w1, <<U(600), U(200)>>, RopeLength, U(20), rots[1])
        w3 == squareSample(w2, <<U(900), U(300)>>, U(50), rots[2])
        w4 == squareSample(w3, <<U(1000), U(200)>>, U(50), rots[3])
    IN  squareSample(w4, third, U(50), rots[4])

\* The loop that finds the node nearest to mPos within SNAP_RADIUS
RECURSIVE NearestLoop(_, _, _, _, _, _)
NearestLoop(heap, lst, i, mp, best, distBest) ==
    IF i > Len(lst) THEN best
    ELSE LET d == distance(mp, pos(heap[lst[i]]))
         IN  IF d < distBest
             THEN NearestLoop(heap, lst, i + 1, mp, lst[i], d)
             ELSE NearestLoop(heap, lst, i + 1, mp, best, distBest)

Nearest(heap, lst, mp) == NearestLoop(heap, lst, 1, mp, 0, U(SNAP_RADIUS))

\* any(nodeB in stick.nodes for stick in nodeA.sticks)
AlreadyLinkedNever(heap, sh, a, b) == FALSE

AlreadyLinked(heap, sh, a, b) ==
    \E i \in DOMAIN heap[a].sticks : b \in StickNodes(sh[heap[a].sticks[i]])

\* for stick in nearest.sticks: try app.sticks.remove(stick) except ValueError
RECURSIVE RemoveEach(_, _, _)
RemoveEach(lst, ids, i) ==
    IF i > Len(ids) THEN lst
    ELSE RemoveEach(ListRemove(lst, ids[i]), ids, i + 1)

\* for stick in app.sticks: if distance(mPos, stick.center) < DELETE_RADIUS
\* + STICK_WIDTH: app.sticks.remove(stick) -- a loop over the list it shortens
RECURSIVE DeleteLoop(_, _, _, _, _)
DeleteLoop(heap, sh, lst, i, mp) ==
    IF i > Len(lst) THEN lst
    ELSE IF distance(mp, center(heap, sh[lst[i]])) < U(DELETE_RADIUS + STICK_WIDTH)
         THEN DeleteLoop(heap, sh, ListRemove(lst, lst[i]), i + 1, mp)
         ELSE DeleteLoop(heap, sh, lst, i + 1, mp)

Init ==
    \E rots \in SampleDraws :
        LET w == LoadSamples([N |-> <<>>, S |-> <<>>, nodes |-> <<>>, sticks |-> <<>>],
                             <<U(1100), U(350)>>, rots)
        IN  /\ N = w.N
            /\ S = w.S
            /\ nodes = w.nodes
            /\ sticks = w.sticks
            /\ paused = TRUE
            /\ nodeA = 0
            /\ nodeB = 0
            /\ mPos = <<0, 0>>
            /\ mState = [left |-> FALSE, right |-> FALSE]
            /\ nearest = 0
            /\ pc = "poll"
            /\ leftDown = FALSE
            /\ used = [ticks |-> 0, created |-> 0, reloads |-> 0, events |-> 0]
            /\ last = "init"
            /\ log = EmptyLog("none", <<>>)
            /\ args = <<>>

\* Top of the loop body: mPos, mState and nearest of the frame.
Poll(mp, right) ==
    /\ pc = "poll"
    /\ mPos' = mp
    /\ mState' = [left |-> leftDown, right |-> right]
    /\ nearest' = Nearest(N, nodes, mp)
    /\ pc' = "events"
    /\ last' = "poll"
    /\ log' = EmptyLog("none", <<>>)
    /\ UNCHANGED <<N, S, nodes, sticks, paused, nodeA, nodeB, leftDown, used, args>>

\* KEYDOWN, K_SPACE
KeySpace ==
    /\ pc = "events"
    /\ used.events < MaxEvents
    /\ paused' = ~paused
    /\ used' = [used EXCEPT !.events = @ + 1]
    /\ last' = "space"
    /\ UNCHANGED <<N, S, nodes, sticks, nodeA, nodeB, mPos, mState, nearest, pc,
                   leftDown, log, args>>

\* KEYDOWN, K_r
KeyR ==
    /\ pc = "events"
    /\ used.events < MaxEvents
    /\ sticks' = <<>>
    /\ nodes' = <<>>
    /\ paused' = TRUE
    /\ used' = [used EXCEPT !.events = @ + 1]
    /\ last' = "reset"
    /\ UNCHANGED <<N, S, nodeA, nodeB, mPos, mState, nearest, pc, leftDown, log, args>>

\* KEYDOWN, K_e
KeyE(rots) ==
    /\ pc = "events"
    /\ used.events < MaxEvents
    /\ used.reloads < MaxReloads
    /\ LET w == LoadSamples([N |-> N, S |-> S, nodes |-> <<>>, sticks |-> <<>>],
                            <<U(1200), U(350)>>, rots)
       IN  /\ N' = w.N
           /\ S' = w.S
           /\ nodes' = w.nodes
           /\ sticks' = w.sticks
    /\ paused' = TRUE
    /\ used' = [used EXCEPT !.reloads = @ + 1, !.events = @ + 1]
    /\ last' = "reload"
    /\ UNCHANGED <<nodeA, nodeB, mPos, mState, nearest, pc, leftDown, log, args>>

\* MOUSEBUTTONDOWN, button 1
MouseDown ==
    /\ pc = "events"
    /\ used.events < MaxEvents
    /\ ~leftDown
    /\ leftDown' = TRUE
    /\ IF nearest # 0
       THEN /\ nodeA' = nearest
            /\ used' = [used EXCEPT !.events = @ + 1]
            /\ UNCHANGED <<N, nodes>>
       ELSE /\ used.created < MaxCreated
            /\ nodeA' = Len(N) + 1
            /\ N' = Append(N, Node(mPos, FALSE, TRUE, MassScale))
            /\ nodes' = Append(nodes, Len(N) + 1)
            /\ used' = [used EXCEPT !.created = @ + 1, !.events = @ + 1]
    /\ last' = "down"
    /\ UNCHANGED <<S, sticks, paused, nodeB, mPos, mState, nearest, pc, log, args>>

\* MOUSEBUTTONUP, button 1
MouseUp ==
    /\ pc = "events"
    /\ used.events < MaxEvents
    /\ leftDown
    /\ leftDown' = FALSE
    /\ nearest = 0 => used.created < MaxCreated
    /\ LET b == IF nearest # 0 THEN nearest ELSE Len(N) + 1
           w1 == IF nearest # 0 THEN World
                 ELSE [World EXCEPT !.N = Append(@, Node(mPos, FALSE, TRUE, MassScale)),
                                    !.nodes = Append(@, b)]
           link == nodeA # b /\ ~AlreadyLinked(w1.N, w1.S, nodeA, b)
           w2 == IF link THEN AppendStick(w1, nodeA, b)
                 ELSE IF nodeA = b /\ ~w1.N[nodeA].isNew
                 THEN [w1 EXCEPT !.N[nodeA].locked = ~@]
                 ELSE w1
           w3 == [w2 EXCEPT !.N[nodeA].isNew = FALSE, !.N[b].isNew = FALSE]
       IN  /\ nodeB' = b
           /\ N' = w3.N
           /\ S' = w3.S
           /\ nodes' = w3.nodes
           /\ sticks' = w3.sticks
           /\ used' = [used EXCEPT !.events = @ + 1,
                                   !.created = IF nearest # 0 THEN @ ELSE @ + 1]
           /\ last' = IF link THEN "up:stick"
                      ELSE IF nodeA # b THEN "up:linked"
                      ELSE IF ~w1.N[nodeA].isNew THEN "up:lock"
                      ELSE "up:placed"
    /\ UNCHANGED <<paused, nodeA, mPos, mState, nearest, pc, log, args>>

\* After the events: if not drawing and mState[2], remove what the cursor
\* is near.  app.nodes.remove(nearest) raises ValueError when an event of
\* this frame emptied app.nodes.
DeletePass ==
    /\ pc = "events"
    /\ IF ~mState.left /\ mState.right
       THEN IF nearest # 0 /\ nearest \notin Range(nodes)
            THEN /\ pc' = "raised"
                 /\ last' = "delete:raised"
                 /\ UNCHANGED <<nodes, sticks>>
            ELSE /\ pc' = "update"
                 /\ last' = "delete:ran"
                 /\ nodes' = IF nearest # 0 THEN ListRemove(nodes, nearest) ELSE nodes
                 /\ sticks' = DeleteLoop(N, S,
                                  IF nearest # 0
                                  THEN RemoveEach(sticks, N[nearest].sticks, 1)
                                  ELSE sticks,
                                  1, mPos)
       ELSE /\ pc' = "update"
            /\ last' = "delete:none"
            /\ UNCHANGED <<nodes, sticks>>
    /\ UNCHANGED <<N, S, paused, nodeA, nodeB, mPos, mState, nearest, leftDown,
                   used, log, args>>

\* app.update(clock.tick() / 1000.0); rendering changes nothing.  The loop
\* body ends here: its locals mPos, mState and nearest are dead until the
\* next iteration assigns them, and are cleared.
Update(dt) ==
    /\ pc = "update"
    /\ ~paused => used.ticks < MaxTicks
    /\ LET r == AppUpdate(World, paused, dt)
       IN  /\ N' = r.N
           /\ sticks' = r.sticks
           /\ log' = r.log
           /\ pc' = IF r.raised THEN "raised" ELSE "poll"
           /\ last' = IF paused THEN "update:paused"
                      ELSE IF r.raised THEN "update:raised"
                      ELSE "update:ran"
    /\ used' = IF paused THEN used ELSE [used EXCEPT !.ticks = @ + 1]
    /\ mPos' = <<0, 0>>
    /\ mState' = [left |-> FALSE, right |-> FALSE]
    /\ nearest' = 0
    /\ UNCHANGED <<S, nodes, paused, nodeA, nodeB, leftDown, args>>

Next ==
    \/ \E mp \in MousePositions, right \in BOOLEAN : Poll(mp, right)
    \/ KeySpace
    \/ KeyR
    \/ \E rots \in SampleDraws : KeyE(rots)
    \/ MouseDown
    \/ MouseUp
    \/ DeletePass
    \/ \E dt \in Ticks : Update(dt)

Spec == Init /\ [][Next]_vars

---------------------------------------------------------------------------
(* Node.update as a function: one Node, one call. *)

NodeHeights == {U(100), U(700), U(717)}
NodeSpeedsX == {0, 50}
NodeSpeedsY == {0, U(1), 0 - U(1)}
NodeTicks == {10, 100, 200}
NodeMasses == {6, MassScale}

InitNode ==
    \E y \in NodeHeights, vx \in NodeSpeedsX, vy \in NodeSpeedsY,
       dt \in NodeTicks, m \in NodeMasses :
        LET cell == [Node(<<U(10), y>>, FALSE, FALSE, m)
                     EXCEPT !.px = U(10) - vx, !.py = y - vy]
        IN  /\ N = <<cell>>
            /\ args = [dt |-> dt, pre |-> cell]
            /\ S = <<>>
            /\ nodes = <<1>>
            /\ sticks = <<>>
            /\ paused = FALSE
            /\ nodeA = 0
            /\ nodeB = 0
            /\ mPos = <<0, 0>>
            /\ mState = [left |-> FALSE, right |-> FALSE]
            /\ nearest = 0
            /\ pc = "call"
            /\ leftDown = FALSE
            /\ used = [ticks |-> 0, created |-> 0, reloads |-> 0, events |-> 0]
            /\ last = "init"
            /\ log = EmptyLog("none", <<>>)

CallNodeUpdate ==
    /\ pc = "call"
    /\ N' = [N EXCEPT ![1] = NodeUpdate(@, args.dt)]
    /\ pc' = "done"
    /\ last' = "Node.update"
    /\ UNCHANGED <<S, nodes, sticks, paused, nodeA, nodeB, mPos, mState, nearest,
                   leftDown, used, log, args>>

NextNode == CallNodeUpdate

SpecNode == InitNode /\ [][NextNode]_vars

---------------------------------------------------------------------------
(* App.textileSample as a function: one call on an empty App. *)

MaxGridWidth == 4
MaxGridHeight == 4
GridPads == {U(1), U(20)}
GridOrigins == {<<0, 0>>, <<U(50), U(200)>>}

InitTextile ==
    \E width \in 1..MaxGridWidth, height \in 1..MaxGridHeight,
       pad \in GridPads, p \in GridOrigins :
        /\ args = [pos |-> p, width |-> width, height |-> height, pad |-> pad]
        /\ N = <<>>
        /\ S = <<>>
        /\ nodes = <<>>
        /\ sticks = <<>>
        /\ paused = TRUE
        /\ nodeA = 0
        /\ nodeB = 0
        /\ mPos = <<0, 0>>
        /\ mState = [left |-> FALSE, right |-> FALSE]
        /\ nearest = 0
        /\ pc = "call"
        /\ leftDown = FALSE
        /\ used = [ticks |-> 0, created |-> 0, reloads |-> 0, events |-> 0]
        /\ last = "init"
        /\ log = EmptyLog("none", <<>>)

CallTextileSample ==
    /\ pc = "call"
    /\ LET w == textileSample(World, args.pos, args.width, args.height, args.pad)
       IN  /\ N' = w.N
           /\ S' = w.S
           /\ nodes' = w.nodes
           /\ sticks' = w.sticks
    /\ pc' = "done"
    /\ last' = "App.textileSample"
    /\ UNCHANGED <<paused, nodeA, nodeB, mPos, mState, nearest, leftDown, used,
                   log, args>>

NextTextile == CallTextileSample

SpecTextile == InitTextile /\ [][NextTextile]_vars

---------------------------------------------------------------------------
(* Properties *)

\* How often v occurs in the list seq.
Count(seq, v) == Cardinality({i \in DOMAIN seq : seq[i] = v})

\* Some stick of the list lst joins the nodes a and b.
Linked(lst, a, b) == \E i \in DOMAIN lst : StickNodes(S[lst[i]]) = {a, b}

\* The step taken is a call of App.update.
UpdateStep == pc = "update"

\* C1: while paused is true App.update(dt) is a no-op for every dt: the
\* fields (x, y, px, py and the rest) of every node, the node collection and
\* the content and order of the stick collection are the same after the call
\* as before it.
C1_PausedUpdateIsNoOp ==
    [][(UpdateStep /\ paused)
        => (N' = N /\ S' = S /\ nodes' = nodes /\ sticks' = sticks)]_vars

\* C1 witness: a paused update has just returned on an App holding nodes and
\* sticks.
C1_Witness == last = "update:paused" /\ nodes # <<>> /\ sticks # <<>>

\* C2 (as claimed): after an unpaused App.update that returned, every stick
\* that was in the collection when the stick pass started was read by the
\* pass exactly once, and then removed or relaxed.
C2_EveryStickProcessedOnce ==
    log.kind = "ran" =>
        \A i \in DOMAIN log.pre :
            /\ Count(log.tested, log.pre[i]) = 1
            /\ log.pre[i] \in Range(log.removed) \cup Range(log.relaxed)

\* C3 (as claimed): a stick removed by an unpaused App.update for its stress
\* is not relaxed in that call: no removed stick had stick.update() run on
\* it, and no removed stick's iteration moved one of its endpoints.
C3_RemovedStickNotRelaxed ==
    log.kind \in {"ran", "raised"} =>
        /\ Range(log.removed) \cap Range(log.relaxed) = {}
        /\ log.moved = {}

\* C4 (as claimed): in every state every stick of app.sticks has both of its
\* endpoints in app.nodes.
C4_SticksJoinPresentNodes ==
    \A i \in DOMAIN sticks :
        S[sticks[i]].a \in Range(nodes) /\ S[sticks[i]].b \in Range(nodes)

\* C5 (as claimed): when a drag that started on node A has just ended on a
\* distinct node B, both of them nodes of the collection, a stick of the
\* collection joins A and B: it was there before, or the drag created it.
C5_DragJoinsUnlinkedNodes ==
    (/\ last \in {"up:stick", "up:linked"}
     /\ nodeA # nodeB
     /\ nodeA \in Range(nodes)
     /\ nodeB \in Range(nodes))
        => Linked(sticks, nodeA, nodeB)

\* C6: a call of App.update leaves the position (x, y) of every node that is
\* locked when it is called where it was, whatever sticks are attached to it
\* and whether or not the call removes them or raises.
C6_LockedNodeStays ==
    [][UpdateStep
        => \A n \in DOMAIN N :
               N[n].locked => (N'[n].x = N[n].x /\ N'[n].y = N[n].y)]_vars

\* C6 witness: an unpaused update has just removed a stick whose endpoint is
\* locked and relaxed a stretched stick that stays, one end locked and the
\* other not.
C6_Witness ==
    /\ log.kind = "ran"
    /\ \E id \in Range(log.removed) : N[S[id].a].locked \/ N[S[id].b].locked
    /\ \E id \in Range(log.relaxed) \ Range(log.removed) :
           /\ N[S[id].a].locked /\ ~N[S[id].b].locked
           /\ N[S[id].b].y # N[S[id].b].py

\* C7: in every state no two sticks of app.sticks join the same pair of
\* nodes, and no stick of app.sticks joins a node to itself.
C7_NoDoubleStickNoSelfStick ==
    \A i \in DOMAIN sticks :
        /\ S[sticks[i]].a # S[sticks[i]].b
        /\ \A j \in DOMAIN sticks :
               i # j => StickNodes(S[sticks[i]]) # StickNodes(S[sticks[j]])

\* C7 witness: a drag between two distinct nodes that a stick of the
\* collection already joins has just ended, and no stick was added.
C7_Witness ==
    /\ last = "up:linked"
    /\ nodeA # nodeB
    /\ Linked(sticks, nodeA, nodeB)
    /\ nodeA \in Range(nodes) /\ nodeB \in Range(nodes)

\* C8 (as claimed): App.update never raises on a stick whose endpoints are at
\* the same position.
C8_ZeroDistanceDoesNotRaise == log.kind # "raised"

\* The Node.update call under test has returned; its input was at rest, and
\* the integrated y does not pass the floor line H - NODE_RADIUS.
AtRestOffFloorDone ==
    /\ pc = "done"
    /\ "pre" \in DOMAIN args
    /\ args.pre.px = args.pre.x
    /\ args.pre.py = args.pre.y
    /\ args.pre.y + GravityTerm(args.dt, args.pre.mass) <= U(H - NODE_RADIUS)

\* C9 (as claimed): a node at rest off the floor moves by exactly
\* 0.5 * GRAVITY * dt^2 in y and by 0 in x in one Node.update, and its
\* previous position becomes its position before the call.
C9_RestingNodeMovesHalfGDt2 ==
    AtRestOffFloorDone =>
        /\ 2 * (N[1].y - args.pre.y) * ((MsPerSecond * MsPerSecond) \div PosScale)
               = GRAVITY * args.dt * args.dt
        /\ N[1].x = args.pre.x
        /\ N[1].px = args.pre.x
        /\ N[1].py = args.pre.y

\* C9 (amended): a node at rest off the floor moves by exactly
\* GRAVITY * dt^2 * mass in y and by 0 in x in one Node.update, and its
\* previous position becomes its position before the call.
C9_RestingNodeMovesGDt2Mass ==
    AtRestOffFloorDone =>
        /\ (N[1].y - args.pre.y) * ((MsPerSecond * MsPerSecond * MassScale) \div PosScale)
               = GRAVITY * args.dt * args.dt * args.pre.mass
        /\ N[1].x = args.pre.x
        /\ N[1].px = args.pre.x
        /\ N[1].py = args.pre.y

\* C9 witness: such a call has returned and the node has moved down.
C9_Witness == AtRestOffFloorDone /\ N[1].y > args.pre.y /\ args.pre.mass = MassScale

\* The lattice point (i, j) of the textileSample call under test.
LatticePoint(i, j) == <<args.pos[1] + i * args.pad, args.pos[2] + j * args.pad>>

\* Two nodes one lattice step apart, along x or along y.
LatticeNeighbours(m, n) ==
    \/ N[m].y = N[n].y /\ Abs(N[m].x - N[n].x) = args.pad
    \/ N[m].x = N[n].x /\ Abs(N[m].y - N[n].y) = args.pad

\* C10: App.textileSample(width, height) on an empty App, width >= 1 and
\* height >= 1, adds width * height nodes, one on each lattice point, and
\* height * (width - 1) + width * (height - 1) sticks, exactly one for each
\* pair of nodes one lattice step apart and none for any other pair, and
\* locks exactly the nodes on the first row's two corners.
C10_TextileIsLattice ==
    (pc = "done" /\ "width" \in DOMAIN args) =>
        /\ Len(nodes) = args.width * args.height
        /\ DOMAIN N = Range(nodes)
        /\ \A i \in 0..(args.width - 1), j \in 0..(args.height - 1) :
               Cardinality({n \in Range(nodes) : pos(N[n]) = LatticePoint(i, j)}) = 1
        /\ Len(sticks) = args.height * (args.width - 1)
                         + args.width * (args.height - 1)
        /\ \A m \in Range(nodes), n \in Range(nodes) :
               Cardinality({k \in DOMAIN sticks : StickNodes(S[sticks[k]]) = {m, n}})
               = IF m # n /\ LatticeNeighbours(m, n) THEN 1 ELSE 0
        /\ {n \in Range(nodes) : N[n].locked}
               = {n \in Range(nodes) :
                      pos(N[n]) \in {LatticePoint(0, 0), LatticePoint(args.width - 1, 0)}}

\* C10 witness: the call has returned for width 3 and height 2, with 6 nodes
\* and 7 sticks.
C10_Witness ==
    /\ pc = "done"
    /\ "width" \in DOMAIN args
    /\ args.width = 3 /\ args.height = 2
    /\ Len(nodes) = 6 /\ Len(sticks) = 7

\* C11: in a frame where the right mouse button is held and the left is not,
\* after the deletion pass no stick remaining in the stick collection has
\* its center within DELETE_RADIUS + STICK_WIDTH of the cursor, also when
\* two such sticks are adjacent in the collection.
C11_DeletePassLeavesNoNearStick ==
    (pc = "update" /\ last = "delete:ran")
        => \A i \in DOMAIN sticks :
               ~(distance(mPos, center(N, S[sticks[i]]))
                     < U(DELETE_RADIUS + STICK_WIDTH))

=============================================================================
